---- MODULE Spec2Model ----
(***************************************************************************)
(* H3RNNSeqClassifier (h3mlcore/models/H3RNNSeqClassifier.py): the wrapper *)
(* around the bucketing runtime.  The wrapper's own control flow is        *)
(* modelled statement by statement; the collaborators (the bucketing       *)
(* runtime, the iterators, the logger) are modelled by the calls the       *)
(* wrapper makes on them, recorded in order in `trace`.                    *)
(* Python arrays are 0-based: labels and scores are functions on 0..N-1.   *)
(***************************************************************************)
EXTENDS Integers, Sequences, FiniteSets, TLC

VARIABLES
    lstm_layer,     \* self.lstm_layer
    num_classes,    \* self.num_classes
    optimizer,      \* self.optimizer
    learning_rate,  \* self.learning_rate
    metric,         \* self.metric: the metric object, or unset
    model,          \* self.model: None or the runtime's state
    pc,             \* position of the running call
    op,             \* the running (or last) call and its arguments
    exc,            \* the exception the last call raised, "" if none
    trace,          \* calls made on the collaborators by the running call
    e,              \* train_epochs: the loop variable e
    cursor,         \* position of the iterator being consumed
    order,          \* the batches the iterator yields in the current pass
    labels,         \* predict: labels array
    scores,         \* predict: scores array
    runtime_out,    \* predict: output row the runtime produced per sample
    sym             \* the graph returned by the last _sym_gen call

vars == <<lstm_layer, num_classes, optimizer, learning_rate, metric, model, pc,
          op, exc, trace, e, cursor, order, labels, scores, runtime_out, sym>>

hyper == <<lstm_layer, num_classes, optimizer, learning_rate, metric>>

(***************************************************************************)
(* Bounds of the model.                                                    *)
(***************************************************************************)
MaxLayers == 2      \* lstm_layer ranges over -1..MaxLayers
MaxSeqLen == 2      \* seq_len ranges over 1..MaxSeqLen
MaxEpochs == 2      \* num_epochs ranges over 0..MaxEpochs
MaxBatches == 2     \* batches per pass of the training iterator
MaxN == 3           \* len(test_data) ranges over 0..MaxN
MaxBatchSize == 2   \* batch_size ranges over 1..MaxBatchSize
MaxEpochArg == 10   \* save's epoch ranges over -1..MaxEpochArg

(***************************************************************************)
(* Constructor defaults.                                                   *)
(***************************************************************************)
DefaultLstmLayer == 1
DefaultNumClasses == 2
DefaultOptimizer == "sgd"
DefaultLearningRate == "0.1"
DefaultMetric == "acc"

Optimizers == {"sgd", "adam"}
LearningRates == {"0.1", "0.01"}
MetricArgs == {"acc", "cross-entropy", "topk", "f1"}

\* the metric object the constructor selects; an unrecognized name leaves
\* the attribute unset
MetricOf(name) ==
    IF name = "acc" THEN "Accuracy"
    ELSE IF name = "cross-entropy" THEN "CrossEntropy"
    ELSE IF name = "topk" THEN "TopKAccuracy"
    ELSE "unset"

\* self.model = None; a runtime that exists records whether it is bound,
\* where its parameters come from, its optimizer and whether an update ran
NoModel == [exists |-> FALSE, binded |-> FALSE, params |-> "none",
            optimizer |-> <<>>, updated |-> FALSE]

Ev(c, a) == [call |-> c, arg |-> a]

Range0(n) == 0 .. (n - 1)

Perms(S) == {f \in [1 .. Cardinality(S) -> S] :
                \A i, j \in 1 .. Cardinality(S) : f[i] = f[j] => i = j}

Zeros(n) == [i \in Range0(n) |-> 0]

ZeroRows(n, k) == [i \in Range0(n) |-> [c \in Range0(k) |-> 0]]

\* no graph generated yet
NoSym == [graph |-> <<>>, data_names |-> <<>>, label_names |-> <<>>]

\* the state of the locals between calls
ResetLocals ==
    /\ e' = 0
    /\ cursor' = 0
    /\ order' = <<>>
    /\ labels' = Zeros(0)
    /\ scores' = Zeros(0)
    /\ runtime_out' = Zeros(0)
    /\ sym' = NoSym

NoCall == [name |-> ""]

\* no call is running
Ready == pc = "idle"

\* the running call has returned or raised: control is back at the caller
Return ==
    /\ pc \in {"done", "raised"}
    /\ pc' = "idle"
    /\ op' = NoCall
    /\ exc' = ""
    /\ trace' = <<>>
    /\ ResetLocals
    /\ UNCHANGED <<hyper, model>>

InitWith(layers, classes, opt, lr, m) ==
    /\ lstm_layer = layers
    /\ num_classes = classes
    /\ optimizer = opt
    /\ learning_rate = lr
    /\ metric = MetricOf(m)
    /\ model = NoModel
    /\ pc = "idle"
    /\ op = NoCall
    /\ exc = ""
    /\ trace = <<>>
    /\ e = 0
    /\ cursor = 0
    /\ order = <<>>
    /\ labels = Zeros(0)
    /\ scores = Zeros(0)
    /\ runtime_out = Zeros(0)
    /\ sym = NoSym

\* construction with any optimizer and learning rate
Init ==
    \E opt \in Optimizers, lr \in LearningRates :
        InitWith(DefaultLstmLayer, DefaultNumClasses, opt, lr, DefaultMetric)

(***************************************************************************)
(* initialize(data_iter)                                                   *)
(***************************************************************************)
IterArgs == {"BucketSeqLabelIter", "NDArrayIter", "list"}

\* variant: the check accepts any data iterator of the framework
IsAnyDataIter(data_iter) == data_iter \in {"BucketSeqLabelIter", "NDArrayIter"}

IsBucketIter(data_iter) == data_iter = "BucketSeqLabelIter"

LoadOutcomes == {"ok", "IOError", "ValueError", "MXNetError"}

Caught(outcome) == outcome \in {"IOError", "ValueError"}

\* variant: the optimizer is configured with the constructor's defaults
OptimizerDefaults == <<DefaultOptimizer, DefaultLearningRate>>

OptimizerArgs == <<optimizer, learning_rate>>

InitializeCall ==
    /\ Ready
    /\ \E data_iter \in IterArgs :
        /\ op' = [name |-> "initialize", data_iter |-> data_iter]
        /\ IF ~IsBucketIter(data_iter)
           THEN /\ pc' = "raised"
                /\ exc' = "TypeError"
                /\ trace' = <<>>
                /\ model' = model
           ELSE /\ pc' = "init_bind"
                /\ exc' = ""
                /\ trace' = <<Ev("BucketingModule", <<>>)>>
                /\ model' = [exists |-> TRUE, binded |-> FALSE,
                             params |-> "none", optimizer |-> <<>>,
                             updated |-> FALSE]
    /\ ResetLocals
    /\ UNCHANGED hyper

InitBind ==
    /\ pc = "init_bind"
    /\ model' = [model EXCEPT !.binded = TRUE]
    /\ trace' = Append(trace, Ev("bind", <<>>))
    /\ pc' = "init_params"
    /\ UNCHANGED <<hyper, op, exc, e, cursor, order, labels, scores,
                   runtime_out, sym>>

InitParams ==
    /\ pc = "init_params"
    /\ \E isfile \in BOOLEAN :
        IF isfile
        THEN \E outcome \in LoadOutcomes :
                IF outcome = "ok"
                THEN /\ model' = [model EXCEPT !.params = "loaded"]
                     /\ trace' = trace \o <<Ev("load_params", <<outcome>>),
                                            Ev("logger.info", <<>>)>>
                     /\ pc' = "init_optimizer"
                     /\ exc' = exc
                ELSE IF Caught(outcome)
                THEN /\ model' = model
                     /\ trace' = trace \o <<Ev("load_params", <<outcome>>),
                                            Ev("logger.warning", <<>>)>>
                     /\ pc' = "init_optimizer"
                     /\ exc' = exc
                ELSE /\ model' = model
                     /\ trace' = Append(trace, Ev("load_params", <<outcome>>))
                     /\ pc' = "raised"
                     /\ exc' = outcome
        ELSE /\ model' = [model EXCEPT !.params = "initialized"]
             /\ trace' = trace \o <<Ev("init_params", <<>>),
                                    Ev("logger.info", <<>>)>>
             /\ pc' = "init_optimizer"
             /\ exc' = exc
    /\ UNCHANGED <<hyper, op, e, cursor, order, labels, scores,
                   runtime_out, sym>>

InitOptimizer ==
    /\ pc = "init_optimizer"
    /\ model' = [model EXCEPT !.optimizer = OptimizerArgs]
    /\ trace' = Append(trace, Ev("init_optimizer", OptimizerArgs))
    /\ pc' = "done"
    /\ UNCHANGED <<hyper, op, exc, e, cursor, order, labels, scores,
                   runtime_out, sym>>

(***************************************************************************)
(* step(data_batch)                                                        *)
(***************************************************************************)
\* variant: the update is applied before the backward pass
StepCallsUpdateFirst(data_batch) ==
    <<Ev("forward", <<data_batch, "train">>),
      Ev("get_outputs", <<>>),
      Ev("metric.update", <<"CrossEntropy">>),
      Ev("logger.debug", <<>>),
      Ev("update", <<>>),
      Ev("backward", <<>>)>>

\* the calls of one step on an existing runtime, in program order
StepCalls(data_batch) ==
    <<Ev("forward", <<data_batch, "train">>),
      Ev("get_outputs", <<>>),
      Ev("metric.update", <<"CrossEntropy">>),
      Ev("logger.debug", <<>>),
      Ev("backward", <<>>),
      Ev("update", <<>>)>>

(***************************************************************************)
(* train_epochs(train_data, eval_data, num_epochs)                         *)
(* train_data is an iterator of B batches, numbered 1..B; a pass yields    *)
(* them in the order the iterator chose at reset.                          *)
(***************************************************************************)
EvalArgs == {"None", "BucketSeqLabelIter"}

\* the orders in which a pass over an iterator of B batches can yield them
YieldOrders(B) == Perms(1 .. B)

\* if eval_data:
EvalRequested(eval_data) == eval_data # "None"

\* variant: the loop runs one epoch too many
InEpochRangeInclusive(i, num_epochs) == i \in 0 .. num_epochs

\* for e in range(num_epochs)
InEpochRange(i, num_epochs) == i \in Range0(num_epochs)

\* the epoch index written to the log
EpochLogged(i) == i + 1

TrainEpochsCall ==
    /\ Ready
    /\ \E B \in 0 .. MaxBatches, n \in 0 .. MaxEpochs, ev \in EvalArgs :
        op' = [name |-> "train_epochs", batches |-> B, eval_data |-> ev,
               num_epochs |-> n]
    /\ pc' = "train_epoch"
    /\ exc' = ""
    /\ trace' = <<>>
    /\ ResetLocals
    /\ UNCHANGED <<hyper, model>>

\* loop head: the next epoch resets the training iterator, or the loop ends
TrainEpochBegin ==
    /\ pc = "train_epoch"
    /\ IF InEpochRange(e, op.num_epochs)
       THEN /\ \E o \in YieldOrders(op.batches) : order' = o
            /\ cursor' = 0
            /\ trace' = Append(trace, Ev("reset", <<"train_data">>))
            /\ pc' = "train_batch"
       ELSE /\ pc' = "done"
            /\ UNCHANGED <<order, cursor, trace>>
    /\ UNCHANGED <<hyper, model, op, exc, e, labels, scores, runtime_out, sym>>

\* for batch in train_data: self.step(data_batch=batch)
TrainBatch ==
    /\ pc = "train_batch"
    /\ IF cursor < Len(order)
       THEN LET batch == order[cursor + 1] IN
            IF model.exists
            THEN /\ trace' = trace \o <<Ev("next", <<batch>>)>> \o StepCalls(batch)
                 /\ model' = [model EXCEPT !.updated = TRUE]
                 /\ cursor' = cursor + 1
                 /\ pc' = pc
                 /\ exc' = exc
            ELSE /\ trace' = Append(trace, Ev("next", <<batch>>))
                 /\ pc' = "raised"
                 /\ exc' = "AttributeError"
                 /\ UNCHANGED <<model, cursor>>
       ELSE /\ pc' = "train_eval"
            /\ UNCHANGED <<trace, model, cursor, exc>>
    /\ UNCHANGED <<hyper, op, e, order, labels, scores, runtime_out, sym>>

\* the evaluation at the end of an epoch, then the next value of e
TrainEval ==
    /\ pc = "train_eval"
    /\ IF EvalRequested(op.eval_data)
       THEN IF model.exists /\ metric # "unset"
            THEN /\ trace' = trace \o
                        <<Ev("reset", <<"eval_data">>),
                          Ev("score", <<metric>>),
                          Ev("logger.info", <<EpochLogged(e)>>)>>
                 /\ e' = e + 1
                 /\ pc' = "train_epoch"
                 /\ exc' = exc
            ELSE /\ trace' = Append(trace, Ev("reset", <<"eval_data">>))
                 /\ pc' = "raised"
                 /\ exc' = "AttributeError"
                 /\ e' = e
       ELSE /\ e' = e + 1
            /\ pc' = "train_epoch"
            /\ UNCHANGED <<trace, exc>>
    /\ UNCHANGED <<hyper, model, op, cursor, order, labels, scores,
                   runtime_out, sym>>

(***************************************************************************)
(* predict(test_data, batch_size)                                          *)
(***************************************************************************)
LogitVals == {0, 1}

\* an output row of the runtime: one value per class
Rows == [Range0(num_classes) -> LogitVals]

\* sample_ids = range(len(test_data))
SampleIds(N) == [i \in Range0(N) |-> i]

\* variant: the labels array is one element too long
NewLabelsOneMore(N) == Zeros(N + 1)

\* np.zeros(shape=(len(test_data),), dtype=int)
NewLabels(N) == Zeros(N)

\* np.zeros(shape=(len(test_data), self.num_classes))
NewScores(N) == ZeroRows(N, num_classes)

\* variant: the last index holding the maximum
ArgMaxLast(row) ==
    CHOOSE i \in DOMAIN row :
        /\ \A j \in DOMAIN row : row[j] <= row[i]
        /\ \A j \in DOMAIN row : j > i => row[j] < row[i]

\* np.argmax: the first index holding the maximum
ArgMax(row) ==
    CHOOSE i \in DOMAIN row :
        /\ \A j \in DOMAIN row : row[j] <= row[i]
        /\ \A j \in DOMAIN row : j < i => row[j] < row[i]

\* BucketSeqLabelIter(test_data, sample_ids, batch_size): the iterator keeps
\* each sample paired with its label, delivers the samples in an order of
\* its own (perm) and groups them batch_size at a time
BucketBatches(N, sample_ids, batch_size, perm) ==
    LET nb == (N + batch_size - 1) \div batch_size
        size(b) == IF b * batch_size <= N THEN batch_size
                   ELSE N - (b - 1) * batch_size
    IN  [b \in 1 .. nb |->
            [k \in 1 .. size(b) |->
                LET i == perm[(b - 1) * batch_size + k]
                IN  [data |-> i, label |-> sample_ids[i]]]]

\* variant: the row is written at its position in the batch
ScatterIdxByRow(batch, k) == k - 1

\* idx of zip(out, batch.label[0].asnumpy()): the label carried by row k
ScatterIdx(batch, k) == batch[k].label

\* the rows of the batch written at index i, in loop order
RowsAt(batch, i) == {k \in DOMAIN batch : ScatterIdx(batch, k) = i}

LastOf(S) == CHOOSE k \in S : \A j \in S : j <= k

\* labels after the inner loop over a batch: the last write at i stands
ScatterLabels(old, out, batch) ==
    [i \in DOMAIN old |->
        IF RowsAt(batch, i) = {} THEN old[i]
        ELSE ArgMax(out[LastOf(RowsAt(batch, i))])]

\* scores after the inner loop over a batch
ScatterScores(old, out, batch) ==
    [i \in DOMAIN old |->
        IF RowsAt(batch, i) = {} THEN old[i]
        ELSE out[LastOf(RowsAt(batch, i))]]

PredictCall ==
    /\ Ready
    /\ \E N \in 0 .. MaxN, batch_size \in 1 .. MaxBatchSize :
        /\ op' = [name |-> "predict", N |-> N, batch_size |-> batch_size]
        /\ labels' = NewLabels(N)
        /\ scores' = NewScores(N)
        /\ runtime_out' = [i \in Range0(N) |-> <<>>]
        /\ \E perm \in Perms(Range0(N)) :
              order' = BucketBatches(N, SampleIds(N), batch_size, perm)
    /\ pc' = "predict_batch"
    /\ exc' = ""
    /\ trace' = <<>>
    /\ cursor' = 0
    /\ e' = 0
    /\ sym' = NoSym
    /\ UNCHANGED <<hyper, model>>

\* one iteration of `for batch in tt_iter`, or the return
PredictBatch ==
    /\ pc = "predict_batch"
    /\ IF cursor < Len(order)
       THEN LET batch == order[cursor + 1] IN
            IF model.exists
            THEN \E out \in [DOMAIN batch -> Rows] :
                    /\ trace' = trace \o
                          <<Ev("forward", <<cursor + 1, "predict">>),
                            Ev("get_outputs", <<>>)>>
                    /\ runtime_out' =
                          [i \in DOMAIN runtime_out |->
                              IF \E k \in DOMAIN batch : batch[k].data = i
                              THEN out[CHOOSE k \in DOMAIN batch :
                                            batch[k].data = i]
                              ELSE runtime_out[i]]
                    /\ labels' = ScatterLabels(labels, out, batch)
                    /\ scores' = ScatterScores(scores, out, batch)
                    /\ cursor' = cursor + 1
                    /\ pc' = pc
                    /\ exc' = exc
            ELSE /\ pc' = "raised"
                 /\ exc' = "AttributeError"
                 /\ UNCHANGED <<trace, runtime_out, labels, scores, cursor>>
       ELSE /\ pc' = "done"
            /\ UNCHANGED <<trace, runtime_out, labels, scores, cursor, exc>>
    /\ UNCHANGED <<hyper, model, op, e, order, sym>>

(***************************************************************************)
(* save(path, epoch)                                                       *)
(* A string is the sequence of its characters.                             *)
(***************************************************************************)
Paths == {<<"m">>, <<"c", "k", "-", "1">>}

\* epoch=None is [given |-> FALSE]
NoEpoch == [given |-> FALSE, value |-> 0]

EpochArgs == {NoEpoch} \cup
             {[given |-> TRUE, value |-> v] : v \in -1 .. MaxEpochArg}

DigitChar(d) == <<"0", "1", "2", "3", "4", "5", "6", "7", "8", "9">>[d + 1]

RECURSIVE NatStr(_)
NatStr(n) == IF n < 10 THEN <<DigitChar(n)>>
             ELSE NatStr(n \div 10) \o <<DigitChar(n % 10)>>

\* str(epoch) of an integer
Str(v) == IF v < 0 THEN <<"-">> \o NatStr(-v) ELSE NatStr(v)

\* if epoch: the truth value of the argument
Truthy(epoch) == epoch.given /\ epoch.value # 0

\* the path handed to save_params
SavePath(path, epoch) ==
    IF Truthy(epoch) THEN path \o <<"-">> \o Str(epoch.value) ELSE path

SaveCall ==
    /\ Ready
    /\ \E path \in Paths, epoch \in EpochArgs :
        /\ op' = [name |-> "save", path |-> path, epoch |-> epoch]
        /\ IF model.exists
           THEN /\ trace' = <<Ev("save_params", SavePath(path, epoch)),
                              Ev("logger.info", SavePath(path, epoch))>>
                /\ pc' = "done"
                /\ exc' = ""
           ELSE /\ trace' = <<>>
                /\ pc' = "raised"
                /\ exc' = "AttributeError"
    /\ ResetLocals
    /\ UNCHANGED <<hyper, model>>

(***************************************************************************)
(* _sym_gen(seq_len)                                                       *)
(* A graph is the sequence of its nodes in construction order; a node      *)
(* names its input node.                                                   *)
(***************************************************************************)
Node(o, id, input, arg) == [op |-> o, id |-> id, input |-> input, arg |-> arg]

\* variant: the loop adds one cell per layer to lstm_1
ExtraLayersOneMore(k) == Range0(k)

\* range(self.lstm_layer - 1)
ExtraLayers(k) == Range0(k - 1)

\* lstm_1 and the cells of the loop, each unrolled over the outputs of the
\* one before
LstmCells(k, seq_len) ==
    [c \in 1 .. (1 + Cardinality(ExtraLayers(k))) |->
        IF c = 1
        THEN Node("LSTMCell", <<"lstm", 1>>, <<"embed", 0>>, seq_len)
        ELSE Node("LSTMCell", <<"lstm", (c - 2) + 2>>, <<"lstm", c - 1>>,
                  seq_len)]

SymGen(seq_len) ==
    LET cells == LstmCells(lstm_layer, seq_len) IN
    [graph |->
        <<Node("Embedding", <<"embed", 0>>, <<"data", 0>>, 0)>>
        \o cells
        \o <<Node("FullyConnected", <<"logits", 0>>, cells[Len(cells)].id,
                  num_classes),
             Node("SoftmaxOutput", <<"softmax", 0>>, <<"logits", 0>>, 0)>>,
     data_names |-> <<"data">>,
     label_names |-> <<"softmax_label">>]

SymGenCall ==
    /\ Ready
    /\ \E seq_len \in 1 .. MaxSeqLen :
        /\ op' = [name |-> "_sym_gen", seq_len |-> seq_len]
        /\ sym' = SymGen(seq_len)
    /\ pc' = "done"
    /\ exc' = ""
    /\ trace' = <<>>
    /\ e' = 0
    /\ cursor' = 0
    /\ order' = <<>>
    /\ labels' = Zeros(0)
    /\ scores' = Zeros(0)
    /\ runtime_out' = Zeros(0)
    /\ UNCHANGED <<hyper, model>>

Next ==
    \/ InitializeCall
    \/ InitBind
    \/ InitParams
    \/ InitOptimizer
    \/ TrainEpochsCall
    \/ TrainEpochBegin
    \/ TrainBatch
    \/ TrainEval
    \/ PredictCall
    \/ PredictBatch
    \/ SaveCall
    \/ SymGenCall
    \/ Return

Spec == Init /\ [][Next]_vars

\* construction with any metric name
InitMetric ==
    \E m \in MetricArgs :
        InitWith(DefaultLstmLayer, DefaultNumClasses, DefaultOptimizer,
                 DefaultLearningRate, m)

SpecMetric == InitMetric /\ [][Next]_vars

\* construction with any layer count
InitLayers ==
    \E layers \in -1 .. MaxLayers :
        InitWith(layers, DefaultNumClasses, DefaultOptimizer,
                 DefaultLearningRate, DefaultMetric)

SpecLayers == InitLayers /\ [][Next]_vars

(***************************************************************************)
(* Properties.                                                             *)
(***************************************************************************)
\* initialize has returned normally with loaded or initialized parameters
Initialized ==
    /\ model.exists
    /\ model.params \in {"loaded", "initialized"}
    /\ Len(model.optimizer) = 2

IsForward(ev) == ev.call = "forward"

IsNext(ev) == ev.call = "next"

IsRuntimeCall(ev) ==
    ev.call \in {"BucketingModule", "bind", "load_params", "init_params",
                 "init_optimizer"}

IsEpochCall(ev) ==
    ev.call \in {"reset", "forward", "backward", "update", "score",
                 "logger.info"}

CallIdx(c) == {i \in DOMAIN trace : trace[i].call = c}

BatchesOf(s) == [i \in DOMAIN s |-> s[i].arg[1]]

TrainingWithoutEval == op.name = "train_epochs" /\ op.eval_data = "None"

TrainingWithEval == op.name = "train_epochs" /\ op.eval_data # "None"

\* C1: train_epochs without eval_data and num_epochs = n over an iterator of
\* B batches calls step exactly n * B times, on the batches in the order the
\* iterator yields them, and never calls the runtime's score.
C1_StepsWithoutEval ==
    TrainingWithoutEval =>
        /\ CallIdx("score") = {}
        /\ \A i \in CallIdx("reset") : trace[i].arg = <<"train_data">>
        /\ pc = "done" =>
            /\ Len(SelectSeq(trace, IsForward)) = op.num_epochs * op.batches
            /\ Len(SelectSeq(trace, IsNext)) = op.num_epochs * op.batches
            /\ BatchesOf(SelectSeq(trace, IsForward))
                 = BatchesOf(SelectSeq(trace, IsNext))
            /\ Cardinality(CallIdx("reset")) = op.num_epochs

C1_Witness ==
    /\ TrainingWithoutEval
    /\ Initialized
    /\ pc = "done"
    /\ op.num_epochs = 2
    /\ op.batches = 2
    /\ BatchesOf(SelectSeq(trace, IsForward)) = <<2, 1, 1, 2>>

\* the first index holding the maximum of row is i
FirstMax(row, i) ==
    /\ i \in DOMAIN row
    /\ \A j \in DOMAIN row : row[j] <= row[i]
    /\ \A j \in DOMAIN row : row[j] = row[i] => i <= j

\* C2: throughout predict on an input of length N, labels and scores have
\* length exactly N and labels[i] is the arg-max index of scores[i] for every
\* i, also for the indices that no batch has written.
C2_LabelsAreArgMax ==
    op.name = "predict" =>
        /\ DOMAIN labels = Range0(op.N)
        /\ DOMAIN scores = Range0(op.N)
        /\ \A i \in Range0(op.N) :
              /\ DOMAIN scores[i] = Range0(num_classes)
              /\ FirstMax(scores[i], labels[i])

C2_Witness ==
    /\ op.name = "predict"
    /\ Initialized
    /\ pc = "predict_batch"
    /\ op.N = 3
    /\ cursor = 1
    /\ \E i \in Range0(op.N) : labels[i] = 1
    /\ \E i \in Range0(op.N) : DOMAIN runtime_out[i] = {}

\* C3: when predict returns, scores[i] is the output row the runtime
\* produced for sample i and labels[i] its arg-max, for every i, whatever
\* the order and grouping of the batches.
C3_InputOrder ==
    (op.name = "predict" /\ pc = "done") =>
        \A i \in Range0(op.N) :
            /\ DOMAIN runtime_out[i] # {}
            /\ scores[i] = runtime_out[i]
            /\ FirstMax(runtime_out[i], labels[i])

C3_Witness ==
    /\ op.name = "predict"
    /\ Initialized
    /\ pc = "done"
    /\ op.N = 3
    /\ op.batch_size = 2
    /\ order[1][1].data = 2
    /\ order[1][2].data = 0
    /\ scores[0] # scores[2]
    /\ labels[1] # labels[2]

\* C4: save on an initialized wrapper hands save_params exactly one path:
\* path + "-" + str(epoch) whenever an epoch is given (0 included), and path
\* itself otherwise.
C4_SavePath ==
    (op.name = "save" /\ pc = "done" /\ Initialized) =>
        /\ Cardinality(CallIdx("save_params")) = 1
        /\ \A i \in CallIdx("save_params") :
              trace[i].arg = IF op.epoch.given
                             THEN op.path \o <<"-">> \o Str(op.epoch.value)
                             ELSE op.path

\* C5: initialize with an argument that is not a bucketing iterator raises
\* TypeError with no runtime call made and self.model left as it was.
C5_TypeErrorFirst ==
    [][(pc = "idle" /\ op'.name = "initialize"
            /\ op'.data_iter # "BucketSeqLabelIter")
        => (/\ pc' = "raised"
            /\ exc' = "TypeError"
            /\ trace' = <<>>
            /\ model' = model)]_vars

C5_Witness ==
    /\ op.name = "initialize"
    /\ op.data_iter = "list"
    /\ exc = "TypeError"
    /\ Initialized
    /\ model.updated

LoadFailed ==
    /\ op.name = "initialize"
    /\ \E i \in CallIdx("load_params") : trace[i].arg[1] \in {"IOError", "ValueError"}

\* C6: when loading the parameters file fails with a read or format error,
\* initialize does not raise, a warning is logged, and the parameters are
\* initialized before the optimizer is configured.
C6_FreshAfterFailedLoad ==
    LoadFailed =>
        /\ pc # "raised"
        /\ CallIdx("logger.warning") # {}
        /\ model.params = "initialized"
        /\ \A i \in CallIdx("init_optimizer") :
              \E j \in CallIdx("init_params") : j < i

CellIdx == {i \in DOMAIN sym.graph : sym.graph[i].op = "LSTMCell"}

\* the cells of the graph form one stack: the first consumes the embedding,
\* each other the output sequence of the one before, all unrolled seq_len
\* steps, and the classification head consumes the last
Stacked(n) ==
    /\ Cardinality(CellIdx) = n
    /\ CellIdx = 2 .. (n + 1)
    /\ \A i \in CellIdx :
          /\ sym.graph[i].arg = op.seq_len
          /\ sym.graph[i].input = sym.graph[i - 1].id
    /\ sym.graph[1].op = "Embedding"
    /\ sym.graph[n + 2].op = "FullyConnected"
    /\ sym.graph[n + 2].input = sym.graph[n + 1].id

\* C7 as stated: the graph holds exactly lstm_layer stacked cells, for every
\* lstm_layer >= 0, 0 included.
C7_CellsEqualLayers ==
    (op.name = "_sym_gen" /\ pc = "done" /\ lstm_layer >= 0) =>
        Stacked(lstm_layer)

\* C7 amended: the graph holds exactly lstm_layer stacked cells when
\* lstm_layer >= 1, and exactly one cell when lstm_layer <= 0.
C7_CellsAtLeastOne ==
    (op.name = "_sym_gen" /\ pc = "done") =>
        Stacked(IF lstm_layer >= 1 THEN lstm_layer ELSE 1)

C7_Witness ==
    /\ op.name = "_sym_gen"
    /\ pc = "done"
    /\ lstm_layer = 2
    /\ op.seq_len = 2
    /\ Cardinality(CellIdx) = 2
    /\ sym.graph[3].input = <<"lstm", 1>>

\* C8: predict([]) on an initialized wrapper does not raise, runs no forward
\* pass and returns labels and scores of length zero.
C8_EmptyInput ==
    (op.name = "predict" /\ op.N = 0 /\ model.exists) =>
        /\ pc # "raised"
        /\ CallIdx("forward") = {}
        /\ DOMAIN labels = {}
        /\ DOMAIN scores = {}

C8_Witness ==
    /\ op.name = "predict"
    /\ op.N = 0
    /\ Initialized
    /\ pc = "done"

\* C9: an initialize that returns normally made the runtime calls construct,
\* bind, load-or-init parameters, configure optimizer in this order, the
\* last call of all being init_optimizer with self.optimizer and
\* self.learning_rate.
C9_OptimizerLast ==
    (op.name = "initialize" /\ pc = "done") =>
        LET R == SelectSeq(trace, IsRuntimeCall) IN
        /\ Len(R) = 4
        /\ R[1].call = "BucketingModule"
        /\ R[2].call = "bind"
        /\ R[3].call \in {"load_params", "init_params"}
        /\ R[4].call = "init_optimizer"
        /\ R[4].arg = <<optimizer, learning_rate>>
        /\ trace[Len(trace)].call = "init_optimizer"
        /\ model.optimizer = <<optimizer, learning_rate>>
        /\ model.binded

C9_Witness ==
    /\ LoadFailed
    /\ pc = "done"
    /\ optimizer = "adam"
    /\ learning_rate = "0.01"

\* C10: train_epochs with an evaluation iterator performs in every epoch
\* k = 1..num_epochs, in this order: one reset of the training iterator, for
\* each training batch one step (forward, backward, update), one reset of
\* the evaluation iterator, one score against self.metric, one log of k.
C10_EpochOrder ==
    (TrainingWithEval /\ pc = "done") =>
        LET P == SelectSeq(trace, IsEpochCall)
            B == op.batches
            len == 4 + 3 * B
        IN  /\ Len(P) = op.num_epochs * len
            /\ \A k \in 1 .. op.num_epochs :
                LET base == (k - 1) * len IN
                /\ P[base + 1].call = "reset"
                /\ P[base + 1].arg = <<"train_data">>
                /\ \A j \in 1 .. B :
                      /\ P[base + 3 * j - 1].call = "forward"
                      /\ P[base + 3 * j].call = "backward"
                      /\ P[base + 3 * j + 1].call = "update"
                /\ {P[base + 3 * j - 1].arg[1] : j \in 1 .. B} = 1 .. B
                /\ P[base + 3 * B + 2].call = "reset"
                /\ P[base + 3 * B + 2].arg = <<"eval_data">>
                /\ P[base + 3 * B + 3].call = "score"
                /\ P[base + 3 * B + 3].arg = <<metric>>
                /\ P[base + 3 * B + 4].call = "logger.info"
                /\ P[base + 3 * B + 4].arg = <<k>>

C10_Witness ==
    /\ TrainingWithEval
    /\ Initialized
    /\ pc = "done"
    /\ op.num_epochs = 2
    /\ op.batches = 2
    /\ metric = "TopKAccuracy"
    /\ Cardinality(CallIdx("score")) = 2

====
